---- MODULE Spec2Model ----
(***************************************************************************)
(* A model of pscc2025Icon.py: the icon resource catalog (index file), its *)
(* 368-byte record codec, and the pack / extract operations that move      *)
(* sub-images between the sidecar data files and a working directory.      *)
(*                                                                         *)
(* Bytes are the integers 0..255, byte strings are sequences of them, and  *)
(* a Python str that came from .decode('ascii') is the sequence of its     *)
(* character codes.  An optional value (None or a value, a file that may   *)
(* be absent) is a sequence of length 0 or 1; the outcome of a call that   *)
(* may raise is a record [error, value] with error = "" on success.        *)
(***************************************************************************)
EXTENDS Integers, Sequences, FiniteSets, TLC

\* ------------------------------------------------------------- constants

NAME_SIZE == 48

DATA_SIZE == 320

\* range(8): the number of PicInfo slots of an IconData
NumPics == 8

\* buf[:512], the part of the index file the header is read from
HeaderWindow == 512

\* res_keys, in the order the code enumerates them
res_keys == <<"low", "high", "xlow", "xhigh">>

\* res_map of extract: resolution key -> folder name
res_map == [low |-> "Low", high |-> "High", xlow |-> "XLow", xhigh |-> "XHigh"]

\* b"Spinner_12"
first_key_name == <<83, 112, 105, 110, 110, 101, 114, 95, 49, 50>>

\* b'fdrq'
Magic == <<102, 100, 114, 113>>

\* ------------------------------------------------------ Python primitives

Max(a, b) == IF a >= b THEN a ELSE b

Min(a, b) == IF a <= b THEN a ELSE b

\* s[lo:hi] for a sequence s and integers lo, hi (negative indices count
\* from the end, out-of-range indices are clamped), 0-based as in Python
Slice(s, lo, hi) ==
    LET n  == Len(s)
        l0 == IF lo < 0 THEN Max(n + lo, 0) ELSE Min(lo, n)
        h0 == IF hi < 0 THEN Max(n + hi, 0) ELSE Min(hi, n)
    IN  IF h0 <= l0 THEN << >> ELSE SubSeq(s, l0 + 1, h0)

\* [0] * n: the empty list when n <= 0
Zeros(n) == [j \in 1..Max(n, 0) |-> 0]

\* bytes.decode('ascii') / str.encode('ascii') succeed
IsAscii(s) == \A j \in 1..Len(s) : s[j] < 128

\* str.strip(chars) and str.rstrip(chars) for a set of character codes
RStripSet(s, chars) ==
    LET keep == {j \in 1..Len(s) : s[j] \notin chars}
    IN  IF keep = {} THEN << >>
        ELSE SubSeq(s, 1, CHOOSE j \in keep : \A k \in keep : k <= j)

StripSet(s, chars) ==
    LET keep == {j \in 1..Len(s) : s[j] \notin chars}
    IN  IF keep = {} THEN << >>
        ELSE SubSeq(s, CHOOSE j \in keep : \A k \in keep : j <= k,
                       CHOOSE j \in keep : \A k \in keep : k <= j)

\* the characters str.strip() removes (ASCII part of str.isspace)
Whitespace == {9, 10, 11, 12, 13, 28, 29, 30, 31, 32}

\* the four bytes of struct.pack('<i', v), -2^31 <= v < 2^31
Pack32(v) ==
    << v % 256, (v \div 256) % 256, (v \div 65536) % 256,
       (v \div 16777216) % 256 >>

\* struct.unpack('<i', b)[0] for the four bytes at 0-based position p of s
Unpack32(s, p) ==
    LET hi == IF s[p + 4] >= 128 THEN s[p + 4] - 256 ELSE s[p + 4]
    IN  s[p + 1] + 256 * s[p + 2] + 65536 * s[p + 3] + 16777216 * hi

\* buf.find(pat): the 0-based index of the first occurrence, or -1
Find(s, pat) ==
    LET hits == {p \in 0..(Len(s) - Len(pat)) :
                    \A j \in 1..Len(pat) : s[p + j] = pat[j]}
    IN  IF hits = {} THEN -1 ELSE CHOOSE p \in hits : \A q \in hits : p <= q

\* ------------------------------------------------------------ data classes

PicInfo(offset, size) == [offset |-> offset, size |-> size]

IconData(width, height, x, y) ==
    [width |-> width, height |-> height, x |-> x, y |-> y,
     pics |-> [q \in 1..NumPics |-> PicInfo(0, 0)]]

\* ResourceIcon(): no buffer given
EmptyIcon ==
    [key |-> << >>,
     resolutions |-> [k \in {"low", "high", "xlow", "xhigh"} |-> IconData(0, 0, 0, 0)]]

\* the index of resolution key k in res_keys, 0-based
ResIndex(k) == (CHOOSE j \in 1..4 : res_keys[j] = k) - 1

\* the key read from a record: .decode('ascii').strip('\x00')
DecodeKey(buffer_data) == StripSet(Slice(buffer_data, 0, NAME_SIZE), {0})

\* ResourceIcon(buffer_data) for a buffer of at least NAME_SIZE + DATA_SIZE
\* ASCII-keyed bytes
ResourceIcon(buffer_data) ==
    LET data(j) == Unpack32(buffer_data, NAME_SIZE + 4 * j)
    IN  [key |-> DecodeKey(buffer_data),
         resolutions |->
            [k \in {"low", "high", "xlow", "xhigh"} |->
                [width  |-> data(ResIndex(k)),
                 height |-> data(4 + ResIndex(k)),
                 x      |-> data(8 + ResIndex(k)),
                 y      |-> data(12 + ResIndex(k)),
                 pics   |-> [q \in 1..NumPics |->
                               PicInfo(data(16 + 8 * ResIndex(k) + (q - 1)),
                                       data(48 + 8 * ResIndex(k) + (q - 1)))]]]]

Ok(v) == [error |-> "", value |-> <<v>>]

Raise(e) == [error |-> e, value |-> << >>]

\* the constructor's outcome: the entry, or the exception it raises
ResourceIconOutcome(buffer_data) ==
    IF Len(buffer_data) = 0 THEN Ok(EmptyIcon)
    ELSE IF ~IsAscii(Slice(buffer_data, 0, NAME_SIZE)) THEN Raise("UnicodeDecodeError")
    ELSE IF Len(Slice(buffer_data, NAME_SIZE, NAME_SIZE + DATA_SIZE)) # DATA_SIZE
         THEN Raise("struct.error")
    ELSE Ok(ResourceIcon(buffer_data))

\* the concatenation of the sequences of a sequence
RECURSIVE Concat(_)
Concat(ss) == IF ss = << >> THEN << >> ELSE Head(ss) \o Concat(Tail(ss))

\* the key field of to_byte_array: the key, then [0] * (NAME_SIZE - len)
EncodeKey(key) == key \o Zeros(NAME_SIZE - Len(key))

\* the 16 dimension integers: width, height, x, y, each for the 4 keys
EncodeDims(self) ==
    Concat([f \in 1..4 |->
        Concat([j \in 1..4 |->
            LET r == self.resolutions[res_keys[j]]
            IN  Pack32(CASE f = 1 -> r.width [] f = 2 -> r.height
                         [] f = 3 -> r.x     [] OTHER -> r.y)])])

EncodeOffsets(self) ==
    Concat([j \in 1..4 |->
        Concat([q \in 1..NumPics |->
            Pack32(self.resolutions[res_keys[j]].pics[q].offset)])])

EncodeSizes(self) ==
    Concat([j \in 1..4 |->
        Concat([q \in 1..NumPics |->
            Pack32(self.resolutions[res_keys[j]].pics[q].size)])])

\* ResourceIcon.to_byte_array for an ASCII key
to_byte_array(self) ==
    EncodeKey(self.key) \o EncodeDims(self) \o EncodeOffsets(self) \o EncodeSizes(self)

\* to_byte_array's outcome: the bytes, or the exception it raises
ToByteArrayOutcome(self) ==
    IF ~IsAscii(self.key) THEN Raise("UnicodeEncodeError") ELSE Ok(to_byte_array(self))

\* ------------------------------------------------------- the index file

\* bytes.split(sep) for a single separator byte
RECURSIVE Split(_, _)
Split(s, sep) ==
    LET p == Find(s, <<sep>>)
    IN  IF p = -1 THEN <<s>>
        ELSE <<Slice(s, 0, p)>> \o Split(Slice(s, p + 1, Len(s)), sep)

\* lines[k].decode('ascii').rstrip('\x00').strip()
HeaderField(line) == StripSet(RStripSet(line, {0}), Whitespace)

\* count = (len(buf) - offset) // struct_size
RecordCount(buf, offset) == (Len(buf) - offset) \div (NAME_SIZE + DATA_SIZE)

\* dst = buf[start_index:end_index] for record i (0-based)
RecordChunk(buf, offset, q) ==
    Slice(buf, offset + q * (NAME_SIZE + DATA_SIZE),
               offset + q * (NAME_SIZE + DATA_SIZE) + (NAME_SIZE + DATA_SIZE))

\* IconResources(index_file_name) for the optional file content `file`: the
\* object's fields, or the way the constructor ends the process
IconResources(file) ==
    IF file = << >> THEN Raise("SystemExit: index file not found")
    ELSE
    LET buf    == file[1]
        lines  == Split(Slice(buf, 0, HeaderWindow), 10)
        offset == Find(buf, first_key_name)
        count  == RecordCount(buf, offset)
    IN  IF Len(lines) < 5 THEN Raise("IndexError")
        ELSE IF \E k \in 1..5 : ~IsAscii(lines[k]) THEN Raise("UnicodeDecodeError")
        ELSE IF offset = -1 THEN Raise("SystemExit: no icon data block")
        ELSE IF \E q \in 0..(count - 1) :
                    ResourceIconOutcome(RecordChunk(buf, offset, q)).error # ""
             THEN Raise("UnicodeDecodeError")
        ELSE Ok([name  |-> HeaderField(lines[1]),
                 low_resolution_data_file   |-> HeaderField(lines[2]),
                 high_resolution_data_file  |-> HeaderField(lines[3]),
                 xlow_resolution_data_file  |-> HeaderField(lines[4]),
                 xhigh_resolution_data_file |-> HeaderField(lines[5]),
                 icons |-> [q \in 1..count |->
                              ResourceIcon(RecordChunk(buf, offset, q - 1))]])

\* the whole original file kept in front of the records
output_index_file_whole(original_buf, icons) ==
    original_buf \o Concat([j \in 1..Len(icons) |-> to_byte_array(icons[j])])

\* the bytes _output_index_file writes: the original file up to the first
\* occurrence of the first key, then every icon's record
output_index_file(original_buf, icons) ==
    LET offset == Find(original_buf, first_key_name)
    IN  Slice(original_buf, 0, offset)
        \o Concat([j \in 1..Len(icons) |-> to_byte_array(icons[j])])

\* ------------------------------------------------------------------ state

VARIABLES
    cpc,            \* record codec: "bytes", "icon", "done" or "failed"
    buffer_data,    \* record codec: the bytes given to ResourceIcon(...)
    self,           \* record codec: the ResourceIcon, as an optional value
    encoded,        \* record codec: to_byte_array's outcome, as an optional value
    idx,            \* file system: the index file of directory "D" / "W" (optional)
    dat,            \* file system: the data files of "D" / "W", by file name
    png,            \* file system: the working directory's images, by <<folder, key, i>>
    pc,             \* where the running process is; "idle" when none runs
    directory_path, \* IconResources.directory_path: "D" or "W"
    res,            \* IconResources: name and the four data file names
    icons,          \* IconResources.icons
    low_buf,        \* pack: low_buf
    high_buf,       \* pack: high_buf
    low_offset,     \* pack: low_offset
    high_offset,    \* pack: high_offset
    buffers,        \* extract: buffers, resolution key -> optional bytes
    ic,             \* pack, extract: position of `icon` in self.icons, from 1
    rk,             \* extract: position of res_key in res_map, from 1
    i,              \* pack, extract: the slot index i, from 0
    pre,            \* history: self.icons as pack found it
    hist            \* history: one record per finished process

codecVars == <<cpc, buffer_data, self, encoded>>

fsVars == <<idx, dat, png>>

procVars == <<pc, directory_path, res, icons, low_buf, high_buf, low_offset,
              high_offset, buffers, ic, rk, i, pre>>

vars == <<codecVars, fsVars, procVars, hist>>

\* a function with one more (or one replaced) entry: a file written
Put(f, k, v) == [x \in (DOMAIN f) \cup {k} |-> IF x = k THEN v ELSE f[x]]

\* open(path, 'rb').read() where the file may be absent
ReadFile(dir, file_name) ==
    IF file_name \in DOMAIN dir THEN <<dir[file_name]>> ELSE << >>

NoFiles == [x \in {} |-> << >>]

NoRes == [name |-> << >>, low_resolution_data_file |-> << >>,
          high_resolution_data_file |-> << >>, xlow_resolution_data_file |-> << >>,
          xhigh_resolution_data_file |-> << >>]

NoBuffers == [k \in {"low", "high", "xlow", "xhigh"} |-> << >>]

\* the variables of the catalog program when only the record codec runs
MainIdle ==
    /\ idx = [d \in {"D", "W"} |-> << >>]
    /\ dat = [d \in {"D", "W"} |-> NoFiles]
    /\ png = NoFiles
    /\ pc = "off"
    /\ directory_path = "D"
    /\ res = NoRes
    /\ icons = << >>
    /\ low_buf = << >> /\ high_buf = << >>
    /\ low_offset = 0 /\ high_offset = 0
    /\ buffers = NoBuffers
    /\ ic = 1 /\ rk = 1 /\ i = 0
    /\ pre = << >>
    /\ hist = << >>

\* the variables of the record codec when the catalog program runs
CodecIdle ==
    /\ cpc = "off"
    /\ buffer_data = << >>
    /\ self = << >>
    /\ encoded = << >>

mainVars == <<fsVars, procVars, hist>>

\* ------------------------------------------------------- the record codec

\* longest run of NUL bytes put in front of a key in a key field
MaxLead == 1

\* how far past NAME_SIZE the key of a hand-built entry may reach
MaxKeyExtra == 1

\* number of shifts of the integer pattern that fills a record's data block
MaxShift == 3

\* the 32-bit values the data block is filled with
DataVals == <<0, 1, -1, 2147483647, -2147483647 - 1, 258, 16909060>>

\* 80 integers, position j holding DataVals[(a*j + b) mod 7]
DataInts(a, b) == [j \in 1..(DATA_SIZE \div 4) |-> DataVals[((a * (j - 1) + b) % 7) + 1]]

DataBlock(ints) == Concat([j \in 1..Len(ints) |-> Pack32(ints[j])])

\* keys: "Spinner_12", "A", "", "A\0B", a key that fills the field
KeyStems ==
    { first_key_name, <<65>>, << >>, <<65, 0, 66>>, [j \in 1..NAME_SIZE |-> 75] }

\* a 48-byte key field: lead NULs, the key, NUL padding
KeyField(lead, stem) == Zeros(lead) \o stem \o Zeros(NAME_SIZE - lead - Len(stem))

KeyFields ==
    { KeyField(l, st) : <<l, st>> \in
        {ls \in (0..MaxLead) \X KeyStems : ls[1] + Len(ls[2]) <= NAME_SIZE} }
    \cup { KeyField(0, <<233>>) }

DataBlocks == { DataBlock(DataInts(a, b)) : <<a, b>> \in {1, 3} \X (0..MaxShift) }

Records == { kf \o db : <<kf, db>> \in KeyFields \X DataBlocks }

\* entries built in memory: ResourceIcon(), then the key and fields assigned
DirectKeys ==
    { [j \in 1..n |-> 75] : n \in {0, 10} \cup (NAME_SIZE..(NAME_SIZE + MaxKeyExtra)) }
    \cup { <<233>> }

DirectIcons ==
    { [ResourceIcon(Zeros(NAME_SIZE) \o db) EXCEPT !.key = k] :
        <<k, db>> \in DirectKeys \X DataBlocks }

CodecInit ==
    /\ MainIdle
    /\ encoded = << >>
    /\ \/ /\ cpc = "bytes"
          /\ buffer_data \in Records
          /\ self = << >>
       \/ /\ cpc = "icon"
          /\ buffer_data = << >>
          /\ self \in { <<e>> : e \in DirectIcons }

\* icon = ResourceIcon(buffer_data)
Decode ==
    /\ cpc = "bytes"
    /\ LET r == ResourceIconOutcome(buffer_data)
       IN  /\ self' = r.value
           /\ cpc' = IF r.error = "" THEN "icon" ELSE "failed"
    /\ UNCHANGED <<buffer_data, encoded, mainVars>>

\* icon.to_byte_array()
Encode ==
    /\ cpc = "icon"
    /\ LET r == ToByteArrayOutcome(self[1])
       IN  /\ encoded' = <<r>>
           /\ cpc' = "done"
    /\ UNCHANGED <<buffer_data, self, mainVars>>

CodecNext == Decode \/ Encode

SpecCodec == CodecInit /\ [][CodecNext]_vars

\* ---------------------------------------------------- the catalog program

\* the command lines run one after the other, each <<args[0], directory of
\* the index file>>; the working directory is always "W".  "api" stands for
\* a caller that constructs IconResources and calls _output_index_file
Scripts ==
    { << <<"-e", "D">>, <<"-p", "D">> >>,
      << <<"-p", "D">>, <<"-p", "W">> >>,
      << <<"-p", "D">>, <<"-p", "D">> >>,
      << <<"-p", "D">>, <<"-e", "W">> >>,
      << <<"-e", "W">>, <<"-p", "D">> >>,
      << <<"api", "D">> >> }

\* the commands run so far
Commands(h) == [j \in 1..Len(h) |-> <<h[j].op, h[j].dir>>]

\* the command may be run next
MayRun(h, op, d) ==
    \E sc \in Scripts :
        /\ Len(sc) > Len(h)
        /\ SubSeq(sc, 1, Len(h) + 1) = Append(Commands(h), <<op, d>>)

\* a finished process, for the history
RunRecord(op, dir, error) ==
    [op |-> op, dir |-> dir, error |-> error,
     start |-> << >>, result |-> << >>, buffers |-> NoBuffers,
     files |-> NoFiles, res |-> NoRes, low |-> << >>, high |-> << >>,
     index |-> << >>]

\* main: res = IconResources(index_file_path) on the index file of directory
\* d, then the dispatch on args[0] ("api": a caller that only constructs)
Construct(d, op) ==
    /\ pc = "idle"
    /\ MayRun(hist, op, d)
    /\ \E r \in {IconResources(idx[d])} :
           IF r.error # ""
           THEN /\ hist' = Append(hist, RunRecord(op, d, r.error))
                /\ UNCHANGED <<procVars>>
           ELSE /\ directory_path' = d
                /\ res' = [f \in DOMAIN NoRes |-> r.value[1][f]]
                /\ icons' = r.value[1].icons
                /\ pc' = CASE op = "-p" -> "pack" [] op = "-e" -> "extract"
                           [] OTHER -> "loaded"
                /\ UNCHANGED <<low_buf, high_buf, low_offset, high_offset,
                               buffers, ic, rk, i, pre, hist>>
    /\ UNCHANGED <<codecVars, fsVars>>

\* _output_index_file(working_directory), called on the loaded object
OutputIndexFile ==
    /\ pc = "loaded"
    /\ idx' = [idx EXCEPT !["W"] =
                  <<output_index_file(idx[directory_path][1], icons)>>]
    /\ pc' = "idle"
    /\ hist' = Append(hist, [RunRecord("write", directory_path, "")
                                EXCEPT !.start = icons, !.result = icons,
                                       !.index = idx'["W"]])
    /\ UNCHANGED <<codecVars, dat, png, directory_path, res, icons, low_buf,
                   high_buf, low_offset, high_offset, buffers, ic, rk, i, pre>>

\* the image file pack reads and extract writes for (folder, key, i)
IconFile(folder, key, n) == <<folder, key, n>>

\* pack's test with the size hint read as "not negative"
ShouldRepackUnused(icon, res_key, n, files) ==
    /\ icon.resolutions[res_key].pics[n + 1].size >= 0
    /\ IconFile(res_map[res_key], icon.key, n) \in DOMAIN files

\* pack's test on a slot: the size hint, then os.path.exists(icon_file)
ShouldRepack(icon, res_key, n, files) ==
    /\ icon.resolutions[res_key].pics[n + 1].size > 0
    /\ IconFile(res_map[res_key], icon.key, n) \in DOMAIN files

\* a cursor that starts at the beginning of the buffer
InitialCursorZero(buf) == 0

\* the cursor over a buffer that holds only the preamble: len(low_buf)
InitialCursor(buf) == Len(buf)

\* a cursor that is not advanced
NextCursorStuck(offset, data) == offset

\* the cursor after `data` is appended: low_offset += len(data)
NextCursor(offset, data) == offset + Len(data)

\* the update written to the same slot of the xlow resolution
RepackedOtherRes(icon, res_key, n, offset, data) ==
    [icon EXCEPT !.resolutions["xlow"].pics[n + 1] = PicInfo(offset, Len(data))]

\* the icon with slot n of res_key moved to `offset` and sized to `data`
Repacked(icon, res_key, n, offset, data) ==
    [icon EXCEPT !.resolutions[res_key].pics[n + 1] = PicInfo(offset, Len(data))]

\* pack, lines 178-192: the two buffers and their cursors (xlow_buf and
\* xhigh_buf are read there and never used)
PackBegin ==
    /\ pc = "pack"
    /\ low_buf' = Magic
    /\ high_buf' = Magic
    /\ low_offset' = InitialCursor(low_buf')
    /\ high_offset' = InitialCursor(high_buf')
    /\ ic' = 1
    /\ i' = 0
    /\ pre' = icons
    /\ pc' = IF Len(icons) = 0 THEN "packWrite" ELSE "packLow"
    /\ UNCHANGED <<codecVars, fsVars, directory_path, res, icons, buffers, rk, hist>>

\* one iteration of "for i in range(8)" of the low resolution
PackLow ==
    /\ pc = "packLow"
    /\ IF ShouldRepack(icons[ic], "low", i, png)
       THEN LET data == png[IconFile("Low", icons[ic].key, i)]
            IN  /\ icons' = [icons EXCEPT ![ic] = Repacked(@, "low", i, low_offset, data)]
                /\ low_buf' = low_buf \o data
                /\ low_offset' = NextCursor(low_offset, data)
       ELSE UNCHANGED <<icons, low_buf, low_offset>>
    /\ IF i < NumPics - 1
       THEN /\ i' = i + 1
            /\ pc' = "packLow"
       ELSE /\ i' = 0
            /\ pc' = "packHigh"
    /\ UNCHANGED <<codecVars, fsVars, directory_path, res, high_buf, high_offset,
                   buffers, ic, rk, pre, hist>>

\* one iteration of "for i in range(8)" of the high resolution
PackHigh ==
    /\ pc = "packHigh"
    /\ IF ShouldRepack(icons[ic], "high", i, png)
       THEN LET data == png[IconFile("High", icons[ic].key, i)]
            IN  /\ icons' = [icons EXCEPT ![ic] = Repacked(@, "high", i, high_offset, data)]
                /\ high_buf' = high_buf \o data
                /\ high_offset' = NextCursor(high_offset, data)
       ELSE UNCHANGED <<icons, high_buf, high_offset>>
    /\ IF i < NumPics - 1
       THEN /\ i' = i + 1
            /\ ic' = ic
            /\ pc' = "packHigh"
       ELSE /\ i' = 0
            /\ ic' = ic + 1
            /\ pc' = IF ic = Len(icons) THEN "packWrite" ELSE "packLow"
    /\ UNCHANGED <<codecVars, fsVars, directory_path, res, low_buf, low_offset,
                   buffers, rk, pre, hist>>

\* pack, lines 226-232: the two data files, then the index file
PackEnd ==
    /\ pc = "packWrite"
    /\ dat' = [dat EXCEPT !["W"] =
                  Put(Put(@, res.low_resolution_data_file, low_buf),
                      res.high_resolution_data_file, high_buf)]
    /\ idx' = [idx EXCEPT !["W"] =
                  <<output_index_file(idx[directory_path][1], icons)>>]
    /\ pc' = "idle"
    /\ hist' = Append(hist, [RunRecord("-p", directory_path, "")
                                EXCEPT !.start = pre, !.result = icons,
                                       !.files = png, !.res = res,
                                       !.low = <<dat'["W"][res.low_resolution_data_file]>>,
                                       !.high = <<dat'["W"][res.high_resolution_data_file]>>,
                                       !.index = idx'["W"]])
    /\ UNCHANGED <<codecVars, png, directory_path, res, icons, low_buf, high_buf,
                   low_offset, high_offset, buffers, ic, rk, i, pre>>

\* the data file name of a resolution key (data_files of extract)
DataFile(r, res_key) ==
    CASE res_key = "low"  -> r.low_resolution_data_file
      [] res_key = "high" -> r.high_resolution_data_file
      [] res_key = "xlow" -> r.xlow_resolution_data_file
      [] OTHER            -> r.xhigh_resolution_data_file

\* extract, lines 236-257: the folders, then the four data files read
ExtractBegin ==
    /\ pc = "extract"
    /\ buffers' = [k \in DOMAIN NoBuffers |->
                      ReadFile(dat[directory_path], DataFile(res, k))]
    /\ ic' = 1
    /\ rk' = 1
    /\ i' = 0
    /\ pc' = "extractLoop"
    /\ UNCHANGED <<codecVars, fsVars, directory_path, res, icons, low_buf, high_buf,
                   low_offset, high_offset, pre, hist>>

\* extract's test on a slot of a resolution whose data file was read
ShouldExtract(p, buffer) ==
    /\ p.size # 0
    /\ ~(p.offset + p.size > Len(buffer))

\* a slice that stops one byte early
ExtractedDataShort(buffer, p) == Slice(buffer, p.offset, p.offset + p.size - 1)

\* extracted_data = buffers[res_key][p.offset : p.offset + p.size]
ExtractedData(buffer, p) == Slice(buffer, p.offset, p.offset + p.size)

\* one iteration of the innermost loop of extract, or, for a resolution
\* whose data file is missing, the `continue` that skips all its slots
ExtractStep ==
    /\ pc = "extractLoop"
    /\ ic <= Len(icons)
    /\ LET res_key == res_keys[rk]
           p       == icons[ic].resolutions[res_key].pics[i + 1]
           skipRes == buffers[res_key] = << >>
       IN  /\ IF ~skipRes /\ ShouldExtract(p, buffers[res_key][1])
              THEN png' = Put(png, IconFile(res_map[res_key], icons[ic].key, i),
                              ExtractedData(buffers[res_key][1], p))
              ELSE png' = png
           /\ IF ~skipRes /\ i < NumPics - 1
              THEN /\ i' = i + 1
                   /\ UNCHANGED <<rk, ic>>
              ELSE /\ i' = 0
                   /\ rk' = IF rk < 4 THEN rk + 1 ELSE 1
                   /\ ic' = IF rk < 4 THEN ic ELSE ic + 1
    /\ UNCHANGED <<codecVars, idx, dat, pc, directory_path, res, icons, low_buf,
                   high_buf, low_offset, high_offset, buffers, pre, hist>>

\* extract returns and the process ends
ExtractEnd ==
    /\ pc = "extractLoop"
    /\ ic > Len(icons)
    /\ pc' = "idle"
    /\ hist' = Append(hist, [RunRecord("-e", directory_path, "")
                                EXCEPT !.start = icons, !.result = icons,
                                       !.buffers = buffers, !.files = png,
                                       !.res = res])
    /\ UNCHANGED <<codecVars, fsVars, directory_path, res, icons, low_buf, high_buf,
                   low_offset, high_offset, buffers, ic, rk, i, pre>>

\* --------------------------------------------------------------- the inputs

\* number of records of an index file
MaxIcons == 2

\* number of stray bytes after the last whole record of an index file
MaxTail == 1

\* slot tables of one resolution of one icon, as <<offset, size>> pairs:
\* in range, out of range, unused with a stray offset, negative, descending,
\* overlapping
Templates ==
    << << <<4, 2>>, <<6, 3>>, <<0, 0>>, <<0, 0>>, <<0, 0>>, <<0, 0>>, <<0, 0>>, <<0, 0>> >>,
       << <<8, 5>>, <<99, 0>>, <<0, 0>>, <<0, 0>>, <<0, 0>>, <<0, 0>>, <<0, 0>>, <<4, 1>> >>,
       << <<4, -1>>, <<-2, 2>>, <<-3, 2>>, <<5, 2>>, <<0, 0>>, <<0, 0>>, <<0, 0>>, <<0, 0>> >>,
       << <<0, 0>>, <<0, 0>>, <<0, 0>>, <<0, 0>>, <<0, 0>>, <<0, 0>>, <<0, 0>>, <<0, 0>> >>,
       << <<6, 2>>, <<4, 2>>, <<0, 0>>, <<0, 0>>, <<0, 0>>, <<0, 0>>, <<0, 0>>, <<0, 0>> >>,
       << <<4, 3>>, <<5, 3>>, <<0, 0>>, <<7, 1>>, <<0, 0>>, <<0, 0>>, <<0, 0>>, <<0, 0>> >> >>

\* the slot table of resolution t (0..3) of record n of catalog c
SlotTable(c, n, t) == Templates[((c + n + t) % Len(Templates)) + 1]

\* the 80 integers of record n of catalog c
RecordInts(c, n) ==
    [j \in 1..(DATA_SIZE \div 4) |->
        IF j <= 16 THEN 10 * n + j
        ELSE IF j <= 48 THEN SlotTable(c, n, (j - 17) \div 8)[((j - 17) % 8) + 1][1]
        ELSE SlotTable(c, n, (j - 49) \div 8)[((j - 49) % 8) + 1][2]]

\* the key of record n: the first is "Spinner_12"; the others repeat it when
\* dup, and are "C", "D", ... otherwise
RecordKey(n, dup) == IF n = 1 \/ dup THEN first_key_name ELSE <<65 + n>>

RecordBytes(c, n, dup, lead) ==
    KeyField(IF n = 1 THEN 0 ELSE lead, RecordKey(n, dup)) \o DataBlock(RecordInts(c, n))

\* "D\nL\nH\nX\nY\n", and the same with one data file named for two resolutions
HeaderPlain == <<68, 10, 76, 10, 72, 10, 88, 10, 89, 10>>

HeaderAlias == <<68, 10, 76, 10, 76, 10, 88, 10, 89, 10>>

\* an index file: header, count records, tail
IndexFile(header, c, count, dup, lead, tail) ==
    header \o Concat([n \in 1..count |-> RecordBytes(c, n, dup, lead)]) \o tail

\* the data files of a directory for a header's names, without those of the
\* resolutions in `missing`
SidecarLow == Magic \o <<11, 12, 13, 14, 15, 16>>

SidecarHigh == Magic \o <<21, 22, 23, 24>>

SidecarXLow == Magic \o <<31, 32>>

SidecarXHigh == Magic \o <<41>>

Sidecars(header, missing) ==
    LET names == [low |-> <<header[3]>>, high |-> <<header[5]>>,
                  xlow |-> <<header[7]>>, xhigh |-> <<header[9]>>]
        blob  == [low |-> SidecarLow, high |-> SidecarHigh,
                  xlow |-> SidecarXLow, xhigh |-> SidecarXHigh]
        have  == {"low", "high", "xlow", "xhigh"} \ missing
    IN  [nm \in {names[k] : k \in have} |->
            blob[CHOOSE k \in have : names[k] = nm /\
                    \A k2 \in have : names[k2] = nm => ResIndex(k) <= ResIndex(k2)]]

\* image files found in the working directory before the first run: bytes
\* 200.., of length 0, 1 or 2
StrayContent(folder, key, n) ==
    [j \in 1..((n + Len(key) + (IF folder = "High" THEN 2 ELSE 0)) % 3) |->
        200 + 10 * n + j + (IF folder = "High" THEN 100 ELSE 0)]

StrayFiles(folders, keys, slots) ==
    [pth \in { IconFile(f, k, n) : <<f, k, n>> \in folders \X keys \X slots } |->
        StrayContent(pth[1], pth[2], pth[3])]

PngAll == StrayFiles({"Low", "High"}, {first_key_name, <<67>>}, {0, 1, 3, 7})

PngFew == StrayFiles({"Low"}, {first_key_name}, {0, 2})

\* what the program finds: <<header of the index file, resolutions whose
\* data file is missing, image files of the working directory>>
Environments ==
    { <<HeaderPlain, {}, NoFiles>>, <<HeaderPlain, {}, PngAll>>,
      <<HeaderPlain, {}, PngFew>>, <<HeaderPlain, {"low"}, PngAll>>,
      <<HeaderPlain, {"low", "xhigh"}, NoFiles>>, <<HeaderAlias, {}, PngAll>> }

Init ==
    /\ CodecIdle
    /\ \E env \in Environments, c \in 0..(Len(Templates) - 1),
          count \in 1..MaxIcons, dup \in BOOLEAN :
          /\ (dup => count > 1)
          /\ idx = [d \in {"D", "W"} |->
                      IF d = "D" THEN <<IndexFile(env[1], c, count, dup, 0, << >>)>>
                      ELSE << >>]
          /\ dat = [d \in {"D", "W"} |->
                      IF d = "D" THEN Sidecars(env[1], env[2]) ELSE NoFiles]
          /\ png = env[3]
    /\ pc = "idle"
    /\ directory_path = "D"
    /\ res = NoRes
    /\ icons = << >>
    /\ low_buf = << >> /\ high_buf = << >>
    /\ low_offset = 0 /\ high_offset = 0
    /\ buffers = NoBuffers
    /\ ic = 1 /\ rk = 1 /\ i = 0
    /\ pre = << >>
    /\ hist = << >>

Next ==
    \/ \E d \in {"D", "W"}, op \in {"-e", "-p", "api"} : Construct(d, op)
    \/ OutputIndexFile
    \/ PackBegin
    \/ PackLow
    \/ PackHigh
    \/ PackEnd
    \/ ExtractBegin
    \/ ExtractStep
    \/ ExtractEnd

Spec == Init /\ [][Next]_vars

\* ------------------------------------------------ the index file, alone

\* "D\nL\nH\nX\nY\n" then two NUL bytes of padding; "D\nL\nH\n", too short;
\* "Spinner_12\nL\nH\nX\nY\n", whose display name is the first key
HeaderPadded == HeaderPlain \o <<0, 0>>

HeaderShort == <<68, 10, 76, 10, 72, 10>>

HeaderNamedKey == first_key_name \o <<10, 76, 10, 72, 10, 88, 10, 89, 10>>

\* index files: whole records with or without a tail of stray bytes, one
\* cut inside its first record, one without the first key, one whose second
\* key is not ASCII
IndexFiles ==
    { IndexFile(h, c, count, FALSE, lead, [j \in 1..t |-> 7]) :
        <<h, c, count, lead, t>> \in
            {HeaderPlain, HeaderPadded, HeaderShort, HeaderNamedKey}
            \X {0, 2} \X (1..MaxIcons) \X (0..MaxLead) \X (0..MaxTail) }
    \cup { HeaderPlain \o first_key_name,
           HeaderPlain \o KeyField(0, <<65>>) \o DataBlock(RecordInts(0, 1)),
           HeaderPlain \o RecordBytes(0, 1, FALSE, 0)
                       \o KeyField(0, <<233>>) \o DataBlock(RecordInts(0, 2)) }

IndexInit ==
    /\ CodecIdle
    /\ idx \in { [d \in {"D", "W"} |-> IF d = "D" THEN <<f>> ELSE << >>] :
                    f \in IndexFiles }
    /\ dat = [d \in {"D", "W"} |-> NoFiles]
    /\ png = NoFiles
    /\ pc = "idle"
    /\ directory_path = "D"
    /\ res = NoRes
    /\ icons = << >>
    /\ low_buf = << >> /\ high_buf = << >>
    /\ low_offset = 0 /\ high_offset = 0
    /\ buffers = NoBuffers
    /\ ic = 1 /\ rk = 1 /\ i = 0
    /\ pre = << >>
    /\ hist = << >>

IndexNext == Construct("D", "api") \/ OutputIndexFile

SpecIndex == IndexInit /\ [][IndexNext]_vars

\* ----------------------------------------------------------------- claims

\* C2: every valid 368-byte record (48 ASCII key bytes, 80 little-endian
\* signed 32-bit integers) that is decoded and encoded again comes back
\* byte for byte.
C2_RecordRoundTrip ==
    (cpc = "done" /\ buffer_data # << >>)
        => /\ encoded[1].error = ""
           /\ encoded[1].value = <<buffer_data>>

\* C9: encoding yields exactly 368 bytes when the key has at most 48 bytes,
\* and fails with KeyTooLong, returning no bytes, when the key is longer.
C9_KeyTooLong ==
    (cpc = "done" /\ IsAscii(self[1].key))
        => IF Len(self[1].key) <= NAME_SIZE
           THEN /\ encoded[1].error = ""
                /\ Len(encoded[1].value[1]) = NAME_SIZE + DATA_SIZE
           ELSE encoded[1].error = "KeyTooLong"

\* the last finished process
LastRun == hist[Len(hist)]

\* pack's loop is running or has just ended
InPack == pc \in {"packLow", "packHigh", "packWrite"}

\* a pack has run to its end and no other process has started
PackFinished ==
    pc = "idle" /\ hist # << >> /\ LastRun.op = "-p" /\ LastRun.error = ""

\* an extract has run to its end and no other process has started
ExtractFinished ==
    pc = "idle" /\ hist # << >> /\ LastRun.op = "-e" /\ LastRun.error = ""

\* slot q (0..7) of resolution t of entry n of a catalog
Pic(cat, n, t, q) == cat[n].resolutions[t].pics[q + 1]

\* the file {key}_s{q}.png is in the folder of resolution t
FilePresent(files, t, key, q) == <<res_map[t], key, q>> \in DOMAIN files

\* pack's loop has passed slot q of resolution t of entry n
Passed(n, t, q) ==
    CASE pc = "packLow"  -> IF t = "low" THEN n < ic \/ (n = ic /\ q < i) ELSE n < ic
      [] pc = "packHigh" -> IF t = "low" THEN n <= ic ELSE n < ic \/ (n = ic /\ q < i)
      [] OTHER           -> TRUE

\* the slots of resolution t that pack has repacked so far, as <<n, q>>
RepackedSoFar(t) ==
    { s \in (1..Len(pre)) \X (0..(NumPics - 1)) :
        /\ Passed(s[1], t, s[2])
        /\ Pic(pre, s[1], t, s[2]).size > 0
        /\ FilePresent(png, t, pre[s[1]].key, s[2]) }

\* the source file of slot s = <<n, q>> of resolution t
SourceFile(t, s) == png[<<res_map[t], pre[s[1]].key, s[2]>>]

RECURSIVE SumOfLengths(_, _)
SumOfLengths(t, S) ==
    IF S = {} THEN 0
    ELSE LET s == CHOOSE x \in S : TRUE
         IN  Len(SourceFile(t, s)) + SumOfLengths(t, S \ {s})

\* <<n, q>> comes before <<m, r>> in pack's enumeration of a resolution
Before(a, b) == a[1] < b[1] \/ (a[1] = b[1] /\ a[2] < b[2])

\* the byte ranges [offset, offset + size) of two slots overlap
Overlap(p1, p2) ==
    /\ p1.offset < p2.offset + p2.size
    /\ p2.offset < p1.offset + p1.size

AllSlots == (1..Len(icons)) \X (0..(NumPics - 1))

\* C3, as claimed: after pack, in each of low and high, the offsets of the
\* catalog's slots strictly increase in (entry, slot) order and no two
\* populated slots overlap.
C3_OffsetsIncreaseAllSlots ==
    PackFinished =>
        \A t \in {"low", "high"} : \A a \in AllSlots, b \in AllSlots :
            /\ Before(a, b) =>
                  Pic(icons, a[1], t, a[2]).offset < Pic(icons, b[1], t, b[2]).offset
            /\ (a # b /\ Pic(icons, a[1], t, a[2]).size > 0
                      /\ Pic(icons, b[1], t, b[2]).size > 0)
                  => ~Overlap(Pic(icons, a[1], t, a[2]), Pic(icons, b[1], t, b[2]))

\* C3, amended: after pack, in each of low and high, of two slots that pack
\* repacked the later one starts at or after the end of the earlier one:
\* offsets never decrease, they increase past every slot repacked from a
\* non-empty file, and no two repacked slots overlap.  Slots pack skipped
\* keep their old offsets and are not ordered.
C3_RepackedOffsetsIncrease ==
    PackFinished =>
        \A t \in {"low", "high"} :
            \A a \in RepackedSoFar(t), b \in RepackedSoFar(t) :
                Before(a, b) =>
                    /\ Pic(icons, b[1], t, b[2]).offset
                          >= Pic(icons, a[1], t, a[2]).offset
                                + Pic(icons, a[1], t, a[2]).size
                    /\ ~Overlap(Pic(icons, a[1], t, a[2]), Pic(icons, b[1], t, b[2]))

\* a pack that repacked, in one resolution, a non-empty file and then
\* another file, and skipped a populated slot whose file was missing
C3_Witness ==
    /\ PackFinished
    /\ \E t \in {"low", "high"} :
          /\ \E a \in RepackedSoFar(t), b \in RepackedSoFar(t) :
                Before(a, b) /\ Len(SourceFile(t, a)) > 0
          /\ \E c \in AllSlots :
                Pic(pre, c[1], t, c[2]).size > 0 /\ c \notin RepackedSoFar(t)

\* C4: pack changes the offset or size of a low or high slot only when the
\* slot's size before pack is nonzero and its file exists; every other slot,
\* all xlow and xhigh slots, every width, height, x, y and key, and the
\* number and order of the entries stay as pack found them.
C4_PackFrame ==
    (InPack \/ PackFinished) =>
        /\ Len(icons) = Len(pre)
        /\ \A n \in 1..Len(pre) :
              /\ icons[n].key = pre[n].key
              /\ \A t \in {"low", "high", "xlow", "xhigh"} :
                    /\ icons[n].resolutions[t].width = pre[n].resolutions[t].width
                    /\ icons[n].resolutions[t].height = pre[n].resolutions[t].height
                    /\ icons[n].resolutions[t].x = pre[n].resolutions[t].x
                    /\ icons[n].resolutions[t].y = pre[n].resolutions[t].y
              /\ \A t \in {"xlow", "xhigh"} :
                    icons[n].resolutions[t].pics = pre[n].resolutions[t].pics
              /\ \A t \in {"low", "high"}, q \in 0..(NumPics - 1) :
                    Pic(icons, n, t, q) # Pic(pre, n, t, q)
                        => /\ Pic(pre, n, t, q).size # 0
                           /\ FilePresent(png, t, pre[n].key, q)

\* a finished pack that moved a slot, left alone a populated slot whose file
\* is missing, and left alone an unused slot whose file exists
C4_Witness ==
    /\ PackFinished
    /\ \E n \in 1..Len(pre), t \in {"low", "high"}, q \in 0..(NumPics - 1) :
          Pic(icons, n, t, q) # Pic(pre, n, t, q)
    /\ \E n \in 1..Len(pre), t \in {"low", "high"}, q \in 0..(NumPics - 1) :
          /\ Pic(pre, n, t, q).size > 0
          /\ ~FilePresent(png, t, pre[n].key, q)
          /\ Pic(icons, n, t, q) = Pic(pre, n, t, q)
    /\ \E n \in 1..Len(pre), t \in {"low", "high"}, q \in 0..(NumPics - 1) :
          /\ Pic(pre, n, t, q).size = 0
          /\ FilePresent(png, t, pre[n].key, q)
          /\ Pic(icons, n, t, q) = Pic(pre, n, t, q)

\* the buffer and the cursor of a resolution that pack rebuilds
PackBuf(t) == IF t = "low" THEN low_buf ELSE high_buf

PackCursor(t) == IF t = "low" THEN low_offset ELSE high_offset

\* C7: a slot whose size is 0 adds no bytes to the buffers pack writes and
\* makes extract write no file, whatever its offset.
C7_SizeZero ==
    [][ /\ (pc = "packLow" /\ Pic(icons, ic, "low", i).size = 0)
            => UNCHANGED <<low_buf, high_buf>>
        /\ (pc = "packHigh" /\ Pic(icons, ic, "high", i).size = 0)
            => UNCHANGED <<low_buf, high_buf>>
        /\ (pc = "extractLoop" /\ ic <= Len(icons)
                /\ Pic(icons, ic, res_keys[rk], i).size = 0)
            => png' = png ]_vars

\* an extract met an unused slot whose offset, 99, lies outside its data
\* file and wrote no file for it; the pack that follows has passed an unused
\* slot with that offset whose image file exists and is not empty
C7_Witness ==
    /\ InPack
    /\ Len(hist) = 1 /\ hist[1].op = "-e" /\ hist[1].error = ""
    /\ \E n \in 1..Len(hist[1].start), t \in {"low", "high", "xlow", "xhigh"},
          q \in 0..(NumPics - 1) :
          /\ Pic(hist[1].start, n, t, q) = PicInfo(99, 0)
          /\ hist[1].buffers[t] # << >>
          /\ ~FilePresent(hist[1].files, t, hist[1].start[n].key, q)
    /\ \E n \in 1..Len(pre), t \in {"low", "high"}, q \in 0..(NumPics - 1) :
          /\ Passed(n, t, q)
          /\ Pic(pre, n, t, q) = PicInfo(99, 0)
          /\ FilePresent(png, t, pre[n].key, q)
          /\ Len(png[<<res_map[t], pre[n].key, q>>]) > 0
          /\ Pic(icons, n, t, q) = PicInfo(99, 0)

\* C10: all through pack's loop, in each of low and high the cursor is the
\* length of the buffer, the buffer begins with "fdrq", every slot repacked
\* so far has an offset >= 4 and its bytes in the buffer are those of its
\* file, and the buffer is 4 bytes plus the files repacked so far; a low
\* step leaves the high cursor, buffer and slots alone, and a high step the
\* low ones.
C10_CursorInv ==
    InPack =>
        \A t \in {"low", "high"} :
            /\ PackCursor(t) = Len(PackBuf(t))
            /\ SubSeq(PackBuf(t), 1, Len(Magic)) = Magic
            /\ Len(PackBuf(t)) = Len(Magic) + SumOfLengths(t, RepackedSoFar(t))
            /\ \A s \in RepackedSoFar(t) :
                  LET p == Pic(icons, s[1], t, s[2])
                  IN  /\ p.offset >= Len(Magic)
                      /\ p.offset + p.size <= Len(PackBuf(t))
                      /\ SubSeq(PackBuf(t), p.offset + 1, p.offset + p.size)
                            = SourceFile(t, s)

\* a step of one resolution leaves the other resolution alone
C10_Separate ==
    /\ pc = "packLow" =>
          /\ UNCHANGED <<high_buf, high_offset>>
          /\ \A n \in 1..Len(icons) :
                icons'[n].resolutions["high"] = icons[n].resolutions["high"]
    /\ pc = "packHigh" =>
          /\ UNCHANGED <<low_buf, low_offset>>
          /\ \A n \in 1..Len(icons) :
                icons'[n].resolutions["low"] = icons[n].resolutions["low"]

\* C10: the cursor invariant holds in every state and every step of one
\* resolution leaves the other resolution's cursor, buffer and slots alone
C10_CursorConsistency == [](C10_CursorInv) /\ [][C10_Separate]_vars

\* pack's loop has ended with two files repacked in low and one in high
C10_Witness ==
    /\ pc = "packWrite"
    /\ Cardinality(RepackedSoFar("low")) >= 2
    /\ Cardinality(RepackedSoFar("high")) >= 1
    /\ Len(low_buf) > Len(Magic) + 1
    /\ Len(high_buf) > Len(Magic)

\* C5: a pack followed by a second pack that starts from the index file the
\* first one wrote, with the same image files, writes the same low and high
\* data files and the same index file, byte for byte.
C5_PackIdempotent ==
    \A j \in 1..(Len(hist) - 1) :
        ( /\ hist[j].op = "-p" /\ hist[j].error = ""
          /\ hist[j + 1].op = "-p" /\ hist[j + 1].error = ""
          /\ hist[j + 1].dir = "W"
          /\ hist[j + 1].files = hist[j].files )
            => /\ hist[j + 1].low = hist[j].low
               /\ hist[j + 1].high = hist[j].high
               /\ hist[j + 1].index = hist[j].index

\* two packs in a row, the second from the first one's index file; the first
\* moved a slot and repacked an empty file
C5_Witness ==
    /\ pc = "idle"
    /\ Len(hist) = 2
    /\ hist[1].op = "-p" /\ hist[1].error = ""
    /\ hist[2].op = "-p" /\ hist[2].error = "" /\ hist[2].dir = "W"
    /\ Len(hist[1].low[1]) > Len(Magic)
    /\ \E n \in 1..Len(hist[1].start), t \in {"low", "high"}, q \in 0..(NumPics - 1) :
          /\ Pic(hist[1].start, n, t, q).size > 0
          /\ Pic(hist[1].result, n, t, q).size = 0
    /\ \E n \in 1..Len(hist[1].start), t \in {"low", "high"}, q \in 0..(NumPics - 1) :
          /\ Pic(hist[1].result, n, t, q).size > 0
          /\ Pic(hist[1].result, n, t, q).offset # Pic(hist[1].start, n, t, q).offset

\* an extract from directory D has been followed by a pack of its index file
ExtractThenPack ==
    /\ pc = "idle"
    /\ Len(hist) = 2
    /\ hist[1].op = "-e" /\ hist[1].error = "" /\ hist[1].dir = "D"
    /\ hist[2].op = "-p" /\ hist[2].error = "" /\ hist[2].dir = "D"

\* the data file of resolution t that the pack wrote, and the one the
\* extract read (optional values)
NewSidecar(t) == IF t = "low" THEN hist[2].low ELSE hist[2].high

OldSidecar(t) == hist[1].buffers[t]

\* the slot's range [offset, offset + size) lies inside the blob
InBlob(blob, p) ==
    p.size >= 0 /\ p.offset >= 0 /\ p.offset + p.size <= Len(blob)

\* the bytes of the new data file at the slot's new range are the bytes of
\* the old data file at the slot's old range
SameBytes(n, t, q) ==
    LET p0 == Pic(hist[1].start, n, t, q)
        p1 == Pic(hist[2].result, n, t, q)
    IN  /\ InBlob(NewSidecar(t)[1], p1)
        /\ SubSeq(NewSidecar(t)[1], p1.offset + 1, p1.offset + p1.size)
              = SubSeq(OldSidecar(t)[1], p0.offset + 1, p0.offset + p0.size)

\* C6, as claimed: after extract then pack, every low or high slot the
\* original catalog marks populated (size > 0) has, at its range of the new
\* data file, the bytes the original catalog and data file gave for it.
C6_ExtractPackFidelity ==
    ExtractThenPack =>
        \A n \in 1..Len(hist[1].start), t \in {"low", "high"},
           q \in 0..(NumPics - 1) :
            ( /\ Pic(hist[1].start, n, t, q).size > 0
              /\ OldSidecar(t) # << >>
              /\ InBlob(OldSidecar(t)[1], Pic(hist[1].start, n, t, q)) )
                => SameBytes(n, t, q)

\* the catalog names one data file for low and another for high
DistinctDataFiles ==
    hist[1].res.low_resolution_data_file # hist[1].res.high_resolution_data_file

\* no other entry of the catalog has the key of entry n
UniqueKey(cat, n) == \A m \in 1..Len(cat) : cat[m].key = cat[n].key => m = n

\* C6, amended: after extract then pack, when the catalog names different
\* data files for low and high, every low or high slot that is populated
\* (size > 0), whose range lies inside its original data file (offset >= 0,
\* offset + size <= length) and whose key no other entry has, is given by
\* the new catalog a range of the new data file that holds the bytes of its
\* old range of the original data file.
C6_FidelityUniqueInRange ==
    (ExtractThenPack /\ DistinctDataFiles) =>
        \A n \in 1..Len(hist[1].start), t \in {"low", "high"},
           q \in 0..(NumPics - 1) :
            ( /\ Pic(hist[1].start, n, t, q).size > 0
              /\ OldSidecar(t) # << >>
              /\ InBlob(OldSidecar(t)[1], Pic(hist[1].start, n, t, q))
              /\ UniqueKey(hist[1].start, n) )
                => SameBytes(n, t, q)

\* extract then pack moved a populated, in-range slot of a unique key to
\* another offset, in a working directory that held other image files
C6_Witness ==
    /\ ExtractThenPack /\ DistinctDataFiles
    /\ \E n \in 1..Len(hist[1].start), t \in {"low", "high"},
          q \in 0..(NumPics - 1) :
          /\ Pic(hist[1].start, n, t, q).size > 0
          /\ OldSidecar(t) # << >>
          /\ InBlob(OldSidecar(t)[1], Pic(hist[1].start, n, t, q))
          /\ UniqueKey(hist[1].start, n)
          /\ Pic(hist[2].result, n, t, q).offset # Pic(hist[1].start, n, t, q).offset
          /\ Len(hist[1].start) > 1

\* C8: for a slot of nonzero size of a resolution whose data file is present,
\* extract writes the slot's file exactly when offset + size <= length of the
\* data, and the file holds exactly `size` bytes, those of
\* blob[offset .. offset + size); a slot that fails the test and a
\* resolution without data file write nothing and extraction goes on.
C8_ExtractStepValid ==
    (pc = "extractLoop" /\ ic <= Len(icons)) =>
        LET res_key == res_keys[rk]
            p       == Pic(icons, ic, res_key, i)
            path    == <<res_map[res_key], icons[ic].key, i>>
        IN  IF buffers[res_key] = << >>
            THEN png' = png
            ELSE p.size # 0 =>
                    IF p.offset + p.size <= Len(buffers[res_key][1])
                    THEN /\ path \in DOMAIN png'
                         /\ Len(png'[path]) = p.size
                         /\ p.offset >= 0
                         /\ \A j \in 1..p.size :
                               png'[path][j] = buffers[res_key][1][p.offset + j]
                    ELSE png' = png

\* C8: every step of extract's loop writes the slot's file exactly when the
\* claimed test passes, with exactly the slot's bytes
C8_ExtractSliceValid == [][C8_ExtractStepValid]_vars

\* C1: an index file the Reader accepts, written back at once by the Writer
\* with no entry changed, comes back byte for byte, tail included.
C1_CatalogRoundTrip ==
    (hist # << >> /\ hist[Len(hist)].op = "write")
        => idx["W"] = idx["D"]

====
